---- MODULE Spec2Model ----
(***************************************************************************)
(* A model of the Secret Santa assignment engine of secret-santa-js.       *)
(*                                                                         *)
(*  - the greedy matcher with retries (matchSantas / retryMatchSantas of   *)
(*    src/unnamed/part_000), one step per statement group of the loops;    *)
(*  - the optimal-assignment matcher (scoreSantaMatches / matchSantas of   *)
(*    src/secret-santa.js), one step per slot.                             *)
(*                                                                         *)
(* A round is, as in the code, a sequence of pairs <<name, assignees>>.    *)
(***************************************************************************)
EXTENDS Integers, Sequences, FiniteSets, TLC

VARIABLES
    \* ---- inputs (config.json after toSantaMap / validate*) ----
    santas,             \* the keys of santaMap, in config order
    blocked,            \* santa.blocked, per name (membership is all the code uses)
    always,             \* santa.always, per name, in declaration order
    allGroups,          \* config.groups: a sequence of groups (each a sequence of names)
    maxCount,           \* config.count
    maxRetries,         \* config.maxRetries
    arrays,             \* the array objects: "caller" is config.previousMatches,
                        \* "local" the array made by [...previousMatches]
    \* ---- retryMatchSantas ----
    remainingMatches,   \* which array object the local remainingMatches names
    attempts,           \* the local attempts
    calls,              \* number of matchSantas calls made so far (observer)
    evictions,          \* number of remainingMatches.shift() calls so far (observer)
    pc,                 \* position in the code
    err,                \* the Error thrown by matchSantas, as the numbers in its message
    result,             \* what retryMatchSantas / matchSantas returned
    \* ---- matchSantas (greedy) ----
    matchCounts,
    allMatches,
    remainingAlways,
    options,
    matches,
    \* ---- matchSantas (optimal assignment) ----
    bMatches,           \* the local matches: per santa index, the assignees so far
    slot,               \* the loop variable i
    assignments,        \* the last result of munkres(scores), as a function index -> index
    \* ---- the script of src/secret-santa.js, from config to history file ----
    emails,             \* santa.email, per name: whether EMAIL_PATTERN matches it
    flags,              \* the command line: test, reminder, remove, and notifyConspirators
    file,               \* previousMatches as the config file on disk holds it
    outbox,             \* the emails handed to the SMTP client or the console so far
    runs                \* number of runs of the script completed before this one

vars == <<santas, blocked, always, allGroups, maxCount, maxRetries, arrays,
          remainingMatches, attempts, calls, evictions, pc, err, result,
          matchCounts, allMatches, remainingAlways, options, matches,
          bMatches, slot, assignments, emails, flags, file, outbox, runs>>

inputVars == <<santas, blocked, always, allGroups, maxCount, maxRetries>>
greedyVars == <<matchCounts, allMatches, remainingAlways, options, matches>>
optimalVars == <<bMatches, slot, assignments>>
scriptVars == <<emails, flags, file, outbox, runs>>

----------------------------------------------------------------------------
\* Bounds of the model

\* the rosters, in config order (santaMap iterates in insertion order): one of
\* three santas, which is given constraints and a history, and one of four
\* with neither
SmallRoster == <<"A", "B", "C">>
LargeRoster == <<"A", "B", "C", "D">>

\* [...santaMap.keys()] as a set, and santaMap.size
Names == {santas[i] : i \in 1..Len(santas)}
NumSantas == Len(santas)

\* config.count ranges over 1..MaxCount, config.maxRetries over 0..MaxRetries
MaxCount == 2
MaxRetries == 1
\* config.previousMatches holds at most MaxHistory rounds
MaxHistory == 2
\* the blocked and always lists of the roster hold at most MaxConstraints
\* entries in all
MaxConstraints == 2
\* ... and at most MaxHistoryConstraints when the config has a history
MaxHistoryConstraints == 1
\* config.previousMatches holds at most MaxOldHistory rounds of the years
\* before the first santa joined
MaxOldHistory == 5

NoValue == "none"

----------------------------------------------------------------------------
\* Array helpers of JavaScript, on sequences

RECURSIVE Flat(_)
\* Array.prototype.flat(): concatenation of the member arrays
Flat(ss) == IF ss = <<>> THEN <<>> ELSE Head(ss) \o Flat(Tail(ss))

\* Array.prototype.includes
Includes(s, x) == \E i \in 1..Len(s) : s[i] = x

\* Array.prototype.filter
Filter(s, P(_)) == SelectSeq(s, P)

\* Array.prototype.map
Map(s, F(_)) == [i \in 1..Len(s) |-> F(s[i])]

\* how often x occurs in s
RECURSIVE Occurrences(_, _)
Occurrences(s, x) ==
    IF s = <<>> THEN 0
    ELSE (IF Head(s) = x THEN 1 ELSE 0) + Occurrences(Tail(s), x)

NoDuplicates(s) == \A i, j \in 1..Len(s) : i # j => s[i] # s[j]

Min(a, b) == IF a < b THEN a ELSE b

----------------------------------------------------------------------------
\* Input sets

RECURSIVE SeqsUpTo(_, _)
\* all sequences over S of length at most n
SeqsUpTo(S, n) ==
    IF n = 0 THEN {<<>>}
    ELSE LET shorter == SeqsUpTo(S, n - 1)
         IN  shorter \cup {Append(s, x) : s \in shorter, x \in S}

RECURSIVE SumLen(_, _)
\* total number of entries of the lists f[n], n in S
SumLen(f, S) ==
    IF S = {} THEN 0
    ELSE LET n == CHOOSE m \in S : TRUE IN Len(f[n]) + SumLen(f, S \ {n})

\* per-santa lists of roster names with at most n entries in the whole roster
\* (validateSantaMap only requires each entry to be a roster name)
ListsPerSanta(n) == {f \in [Names -> SeqsUpTo(Names, n)] : SumLen(f, Names) <= n}

\* config.groups: no group, or one group of two or more roster names
\* (in roster order)
GroupChoices ==
    {<<>>} \cup
    {<<[k \in 1..Len(s) |-> santas[s[k]]]>> :
        s \in {t \in SeqsUpTo(1..NumSantas, NumSantas) :
                  /\ Len(t) >= 2
                  /\ \A i, j \in 1..Len(t) : i < j => t[i] < t[j]}}

\* the round an earlier run with count 1 wrote k years ago: every santa gives
\* to the next santa of the roster (k odd) or to the previous one (k even)
PastRound(k) ==
    [i \in 1..NumSantas |->
        <<santas[i],
          <<santas[IF k % 2 = 1 THEN (i % NumSantas) + 1
                   ELSE ((i + NumSantas - 2) % NumSantas) + 1]>>>>]

\* config.previousMatches, oldest round first
History(len) == [k \in 1..len |-> PastRound(len - k + 1)]

Histories == {History(len) : len \in 0..MaxHistory}

----------------------------------------------------------------------------
\* matchSantas of src/unnamed/part_000 (greedy)

\* mutant of RandInt: Math.round in place of Math.floor reaches max itself
RandIntRounded(max) == 0..max

\* const randInt = max => Math.floor(Math.random() * max): the possible results,
\* 0 .. max-1, and 0 when max is 0
RandInt(max) == IF max = 0 THEN {0} ELSE 0..(max - 1)

\* lines 134-136: the santas already holding name
PersonalSantas(all, name) ==
    Map(Filter(all, LAMBDA m : Includes(m[2], name)), LAMBDA m : m[1])

\* mutant of BlockedMatchNames: the filter looks at the assignees of a pair in
\* place of its matcher
BlockedMatchNamesByAssignee(blockedMatches, name) ==
    Flat(Map(Filter(blockedMatches, LAMBDA m : Includes(m[2], name)), LAMBDA m : m[2]))

\* lines 138-141: everyone name was matched with in the rounds of blockedMatches
BlockedMatchNames(blockedMatches, name) ==
    Flat(Map(Filter(blockedMatches, LAMBDA m : m[1] = name), LAMBDA m : m[2]))

\* lines 143-145 (and 182): the members of every group holding name
GroupNames(groups, name) ==
    Flat(Filter(groups, LAMBDA g : Includes(g, name)))

\* lines 147-150: everyone already matched to a member of name's groups
GroupMatchNames(all, groupNames) ==
    Flat(Map(Filter(all, LAMBDA m : Includes(groupNames, m[1])), LAMBDA m : m[2]))

\* mutant of OptionAllowed: the santa itself is not excluded
OptionAllowedSelf(option, name, blockedL, alwaysL, personalSantas, blockedMatchNames, groupNames, groupMatchNames, counts, maxC) ==
    /\ ~Includes(blockedL, option)
    /\ ~Includes(alwaysL, option)
    /\ ~Includes(personalSantas, option)
    /\ ~Includes(blockedMatchNames, option)
    /\ ~Includes(groupNames, option)
    /\ ~Includes(groupMatchNames, option)
    /\ counts[option] < maxC

\* mutant of OptionAllowed: the blocked list is not consulted
OptionAllowedIgnoringBlocked(option, name, blockedL, alwaysL, personalSantas, blockedMatchNames, groupNames, groupMatchNames, counts, maxC) ==
    /\ option # name
    /\ ~Includes(alwaysL, option)
    /\ ~Includes(personalSantas, option)
    /\ ~Includes(blockedMatchNames, option)
    /\ ~Includes(groupNames, option)
    /\ ~Includes(groupMatchNames, option)
    /\ counts[option] < maxC

\* lines 153-162: the filter predicate of options
OptionAllowed(option, name, blockedL, alwaysL, personalSantas, blockedMatchNames, groupNames, groupMatchNames, counts, maxC) ==
    /\ option # name
    /\ ~Includes(blockedL, option)
    /\ ~Includes(alwaysL, option)
    /\ ~Includes(personalSantas, option)
    /\ ~Includes(blockedMatchNames, option)
    /\ ~Includes(groupNames, option)
    /\ ~Includes(groupMatchNames, option)
    /\ counts[option] < maxC

\* lines 152-163: let options = santaNames.filter(...)
InitialOptions(name, blockedL, alwaysL, all, blockedMatches, groups, counts, maxC) ==
    LET personalSantas == PersonalSantas(all, name)
        blockedMatchNames == BlockedMatchNames(blockedMatches, name)
        groupNames == GroupNames(groups, name)
        groupMatchNames == GroupMatchNames(all, groupNames)
    IN  Filter(santas, LAMBDA option :
            OptionAllowed(option, name, blockedL, alwaysL, personalSantas,
                          blockedMatchNames, groupNames, groupMatchNames, counts, maxC))

\* lines 182-183: options without the members of the groups of match
RemoveGroupOf(opts, groups, match) ==
    LET toRemove == GroupNames(groups, match)
    IN  Filter(opts, LAMBDA option : ~Includes(toRemove, option))

\* mutant of PopValue: the first entry is served (shift in place of pop)
PopValueFirst(s) == s[1]

\* line 171: remainingAlways.pop() returns the last entry ...
PopValue(s) == s[Len(s)]
\* ... and removes it
PopRest(s) == SubSeq(s, 1, Len(s) - 1)

\* the santa the for loop of line 131 is at
CurrentName == santas[Len(allMatches) + 1]

\* the array the local remainingMatches names
Remaining == arrays[remainingMatches]

\* line 128 and 129, on entry to matchSantas (line 202 calls it)
CallMatchSantas ==
    /\ pc = "call"
    /\ matchCounts' = [n \in Names |-> 0]
    /\ allMatches' = <<>>
    /\ remainingAlways' = <<>>
    /\ options' = <<>>
    /\ matches' = <<>>
    /\ calls' = calls + 1
    /\ pc' = "santa"
    /\ UNCHANGED <<inputVars, arrays, remainingMatches, attempts, evictions, err, result,
                   optimalVars, scriptVars>>

\* lines 131-165: the next santa of the for loop: its always list, options and matches
BeginSanta ==
    /\ pc = "santa"
    /\ Len(allMatches) < NumSantas
    /\ remainingAlways' = always[CurrentName]
    /\ options' = InitialOptions(CurrentName, blocked[CurrentName], always[CurrentName],
                                 allMatches, Flat(Remaining), allGroups,
                                 matchCounts, maxCount)
    /\ matches' = <<>>
    /\ pc' = "pick"
    /\ UNCHANGED <<inputVars, arrays, remainingMatches, attempts, calls, evictions, err,
                   result, matchCounts, allMatches, optimalVars, scriptVars>>

\* lines 182-186, once match is chosen
TakeMatch(match) ==
    /\ options' = RemoveGroupOf(options, allGroups, match)
    /\ matchCounts' = [matchCounts EXCEPT ![match] = @ + 1]
    /\ matches' = Append(matches, match)

\* lines 167-171 and 182-186: a pick popped from remainingAlways
PickAlways ==
    /\ pc = "pick"
    /\ Len(matches) < maxCount
    /\ Len(remainingAlways) > 0
    /\ TakeMatch(PopValue(remainingAlways))
    /\ remainingAlways' = PopRest(remainingAlways)
    /\ UNCHANGED <<inputVars, arrays, remainingMatches, attempts, calls, evictions, err,
                   result, pc, allMatches, optimalVars, scriptVars>>

\* lines 167-173 and 182-186: a pick drawn from options
PickRandom ==
    /\ pc = "pick"
    /\ Len(matches) < maxCount
    /\ Len(remainingAlways) = 0
    /\ \E index \in RandInt(Len(options)) :
          /\ index + 1 \in DOMAIN options
          /\ TakeMatch(options[index + 1])
    /\ UNCHANGED <<inputVars, arrays, remainingMatches, attempts, calls, evictions, err,
                   result, pc, allMatches, remainingAlways, optimalVars, scriptVars>>

\* lines 173-180: options[0] of an empty options is undefined, and the Error is
\* thrown; it is caught at line 204
ThrowNoMatch ==
    /\ pc = "pick"
    /\ Len(matches) < maxCount
    /\ Len(remainingAlways) = 0
    /\ \E index \in RandInt(Len(options)) : index + 1 \notin DOMAIN options
    /\ err' = [matchNum |-> Len(matches) + 1,
               santaNum |-> Len(allMatches) + 1,
               name |-> CurrentName]
    /\ pc' = "caught"
    /\ UNCHANGED <<inputVars, arrays, remainingMatches, attempts, calls, evictions,
                   result, greedyVars, optimalVars, scriptVars>>

\* lines 167 and 189: the while loop ends and the santa's matches are recorded
EndSanta ==
    /\ pc = "pick"
    /\ Len(matches) >= maxCount
    /\ allMatches' = Append(allMatches, <<CurrentName, matches>>)
    /\ pc' = "santa"
    /\ UNCHANGED <<inputVars, arrays, remainingMatches, attempts, calls, evictions, err,
                   result, matchCounts, remainingAlways, options, matches, optimalVars, scriptVars>>

----------------------------------------------------------------------------
\* retryMatchSantas of src/unnamed/part_000

\* mutant of SpreadCopy: const remainingMatches = previousMatches names the
\* caller's array
SpreadCopyAliased == "caller"

\* line 197: const remainingMatches = [...previousMatches] makes a new array
SpreadCopy == "local"

\* mutant of Shift: pop() in place of shift() removes the last entry
ShiftLast(s) == SubSeq(s, 1, Len(s) - 1)

\* line 208: Array.prototype.shift() removes the first entry
Shift(s) == Tail(s)

\* mutant of CanRetry: attempts <= maxRetries
CanRetryOffByOne(a, maxR) == a <= maxR

\* line 205
CanRetry(a, maxR) == a < maxR

\* lines 197-198
EnterRetry ==
    /\ pc = "start"
    /\ remainingMatches' = SpreadCopy
    /\ arrays' = [arrays EXCEPT !["local"] = arrays["caller"]]
    /\ attempts' = 0
    /\ pc' = "call"
    /\ UNCHANGED <<inputVars, calls, evictions, err, result, greedyVars, optimalVars, scriptVars>>

\* lines 192 and 203: matchSantas returns allMatches and retryMatchSantas returns
\* [...remainingMatches, matches]
ReturnMatches ==
    /\ pc = "santa"
    /\ Len(allMatches) >= NumSantas
    /\ result' = Append(Remaining, allMatches)
    /\ pc' = "returned"
    /\ UNCHANGED <<inputVars, arrays, remainingMatches, attempts, calls, evictions, err,
                   greedyVars, optimalVars, scriptVars>>

\* lines 205-206
CatchRetry ==
    /\ pc = "caught"
    /\ CanRetry(attempts, maxRetries)
    /\ attempts' = attempts + 1
    /\ pc' = "call"
    /\ UNCHANGED <<inputVars, arrays, remainingMatches, calls, evictions, err, result,
                   greedyVars, optimalVars, scriptVars>>

\* lines 207-209
CatchEvict ==
    /\ pc = "caught"
    /\ ~CanRetry(attempts, maxRetries)
    /\ Len(Remaining) > 0
    /\ arrays' = [arrays EXCEPT ![remainingMatches] = Shift(@)]
    /\ attempts' = 0
    /\ evictions' = evictions + 1
    /\ pc' = "call"
    /\ UNCHANGED <<inputVars, remainingMatches, calls, err, result, greedyVars,
                   optimalVars, scriptVars>>

\* lines 210-211
CatchRethrow ==
    /\ pc = "caught"
    /\ ~CanRetry(attempts, maxRetries)
    /\ ~(Len(Remaining) > 0)
    /\ pc' = "thrown"
    /\ UNCHANGED <<inputVars, arrays, remainingMatches, attempts, calls, evictions, err,
                   result, greedyVars, optimalVars, scriptVars>>

\* the command line of a plain run: no test mode, no reminder, nobody to remove
NoFlags == [test |-> "none", reminder |-> FALSE, remove |-> NoValue, notify |-> FALSE]

\* the variables of the script around the matcher, while a matcher alone runs
ScriptUnused ==
    /\ emails = [n \in Names |-> "valid"]
    /\ flags = NoFlags
    /\ file = arrays["caller"]
    /\ outbox = {}
    /\ runs = 0

\* the state when retryMatchSantas is called (line 231), for a validated config
Init ==
    /\ \/ \* three santas with constraints and groups, no history, one attempt
          /\ santas = SmallRoster
          /\ blocked \in ListsPerSanta(MaxConstraints)
          /\ always \in ListsPerSanta(MaxConstraints - SumLen(blocked, Names))
          /\ allGroups \in GroupChoices
          /\ arrays = [caller |-> <<>>, local |-> <<>>]
          /\ maxRetries = 0
       \/ \* three santas with a history, retries and fewer constraints
          /\ santas = SmallRoster
          /\ blocked \in ListsPerSanta(MaxHistoryConstraints)
          /\ always \in ListsPerSanta(MaxHistoryConstraints - SumLen(blocked, Names))
          /\ allGroups = <<>>
          /\ \E h \in Histories : arrays = [caller |-> h, local |-> <<>>]
          /\ maxRetries \in 0..MaxRetries
       \/ \* four santas with no constraint and no history
          /\ santas = LargeRoster
          /\ blocked = [n \in Names |-> <<>>]
          /\ always = [n \in Names |-> <<>>]
          /\ allGroups = <<>>
          /\ arrays = [caller |-> <<>>, local |-> <<>>]
          /\ maxRetries \in 0..MaxRetries
    /\ maxCount \in 1..MaxCount
    /\ remainingMatches = NoValue
    /\ attempts = 0
    /\ calls = 0
    /\ evictions = 0
    /\ pc = "start"
    /\ err = NoValue
    /\ result = NoValue
    /\ matchCounts = [n \in Names |-> 0]
    /\ allMatches = <<>>
    /\ remainingAlways = <<>>
    /\ options = <<>>
    /\ matches = <<>>
    /\ bMatches = <<>>
    /\ slot = 0
    /\ assignments = <<>>
    /\ ScriptUnused

Next ==
    \/ EnterRetry
    \/ CallMatchSantas
    \/ BeginSanta
    \/ PickAlways
    \/ PickRandom
    \/ ThrowNoMatch
    \/ EndSanta
    \/ ReturnMatches
    \/ CatchRetry
    \/ CatchEvict
    \/ CatchRethrow

Spec == Init /\ [][Next]_vars

----------------------------------------------------------------------------
\* scoreSantaMatches and matchSantas of src/secret-santa.js (optimal assignment)

RECURSIVE Pow(_, _)
\* the ** operator, on naturals
Pow(b, e) == IF e = 0 THEN 1 ELSE b * Pow(b, e - 1)

\* Math.ceil(Math.random() * max) lies in 0..max (0 only when Math.random()
\* returns 0): the two ends of that range
RandCeilMin == 0
RandCeilMax(max) == max

\* lines 143-144
SantaGroupMates(name, groups) ==
    Filter(GroupNames(groups, name), LAMBDA n : n # name)

\* line 146: currentMatches.find(([name]) => name === santa.name)[1]
AlreadyMatched(name, currentMatches) ==
    Filter(currentMatches, LAMBDA m : m[1] = name)[1][2]

\* lines 147-149
AlreadyMatchedGroup(alreadyMatched, groups) ==
    Filter(Flat(Map(alreadyMatched, LAMBDA n : GroupNames(groups, n))),
           LAMBDA n : ~Includes(alreadyMatched, n))

\* lines 151-154
GroupMatched(santaGroupMates, currentMatches) ==
    Flat(Map(Filter(currentMatches, LAMBDA m : Includes(santaGroupMates, m[1])),
             LAMBDA m : m[2]))

\* lines 155-157
MatchedSanta(name, currentMatches) ==
    Map(Filter(currentMatches, LAMBDA m : Includes(m[2], name)), LAMBDA m : m[1])

\* lines 158-161: the santa's assignees in each earlier round that holds the santa
SantaPreviousMatches(name, previousMatches) ==
    Map(Filter(previousMatches, LAMBDA prev : \E k \in 1..Len(prev) : prev[k][1] = name),
        LAMBDA prev : Filter(prev, LAMBDA m : m[1] = name)[1][2])

\* mutant of UnmatchedAlways: the names already matched are not filtered out
UnmatchedAlwaysUnfiltered(alwaysL, alreadyMatched) == alwaysL

\* lines 162-164
UnmatchedAlways(alwaysL, alreadyMatched) ==
    Filter(alwaysL, LAMBDA n : ~Includes(alreadyMatched, n))

\* mutant of HistoryWeight: the exponent starts at 2, the tie breaker's own
HistoryWeightLow(santaCount, index) == Pow(santaCount, index + 2)

\* line 178: santaCount ** (index + 3), the weight of the earlier round at
\* 0-based index `index` among the rounds that hold the santa
HistoryWeight(santaCount, index) == Pow(santaCount, index + 3)

\* lines 184-220: santaCount ** (prevMatchCount + tier), tier being 3 .. 10
TierWeight(santaCount, prevMatchCount, tier) == Pow(santaCount, prevMatchCount + tier)

\* the tiers of lines 183-221, lowest first
Tiers == 3..10
\* the tier of line 210, whose weight is subtracted
AlwaysTier == 8

\* lines 176-221: the terms added to the score of one assignee for one santa,
\* in the order of the code: one per earlier round that holds the santa
\* (terms 1 .. prevMatchCount), then one per tier (term prevMatchCount + tier - 2);
\* a term is 0 when its condition does not hold, and negative for the always tier
Terms(name, assignee, blockedL, alwaysL, currentMatches, previousMatches, groups) ==
    LET santaGroupMates == SantaGroupMates(name, groups)
        alreadyMatched == AlreadyMatched(name, currentMatches)
        alreadyMatchedGroup == AlreadyMatchedGroup(alreadyMatched, groups)
        groupMatched == GroupMatched(santaGroupMates, currentMatches)
        matchedSanta == MatchedSanta(name, currentMatches)
        santaPreviousMatches == SantaPreviousMatches(name, previousMatches)
        unmatchedAlways == UnmatchedAlways(alwaysL, alreadyMatched)
        santaCount == Len(currentMatches)
        prevMatchCount == Len(santaPreviousMatches)
        holds == [tier \in Tiers |->
                    CASE tier = 3 -> Includes(alreadyMatchedGroup, assignee)
                      [] tier = 4 -> Includes(groupMatched, assignee)
                      [] tier = 5 -> Includes(matchedSanta, assignee)
                      [] tier = 6 -> Includes(santaGroupMates, assignee)
                      [] tier = 7 -> Includes(blockedL, assignee)
                      [] tier = 8 -> Includes(unmatchedAlways, assignee)
                      [] tier = 9 -> Includes(alreadyMatched, assignee)
                      [] tier = 10 -> name = assignee]
    IN  [k \in 1..(prevMatchCount + 8) |->
            IF k <= prevMatchCount
            THEN (IF Includes(santaPreviousMatches[k], assignee)
                  THEN HistoryWeight(santaCount, k - 1) ELSE 0)
            ELSE LET tier == k - prevMatchCount + 2
                 IN  IF ~holds[tier] THEN 0
                     ELSE IF tier = AlwaysTier
                          THEN 0 - TierWeight(santaCount, prevMatchCount, tier)
                          ELSE TierWeight(santaCount, prevMatchCount, tier)]

RECURSIVE SumUpTo(_, _)
\* terms[1] + ... + terms[k]
SumUpTo(terms, k) == IF k = 0 THEN 0 ELSE terms[k] + SumUpTo(terms, k - 1)

\* lines 170-223: the score of one assignee for one santa, tieBreak being the
\* value of Math.ceil(Math.random() * santaCount ** 2)
Score(name, assignee, tieBreak, blockedL, alwaysL, currentMatches, previousMatches, groups) ==
    LET terms == Terms(name, assignee, blockedL, alwaysL, currentMatches, previousMatches, groups)
    IN  tieBreak + SumUpTo(terms, Len(terms))

\* the complete assignments of n rows to n columns
Assignments(n) ==
    {f \in [1..n -> 1..n] : \A i, j \in 1..n : i # j => f[i] # f[j]}

RECURSIVE TotalCost(_, _, _)
\* the cost of assignment f on rows 1..i
TotalCost(scores, f, i) ==
    IF i = 0 THEN 0 ELSE scores[i][f[i]] + TotalCost(scores, f, i - 1)

\* mutant of Munkres: every row takes its own cheapest column, whether or not
\* another row takes it too
MunkresRowMinima(scores) ==
    LET n == Len(scores)
    IN  {f \in [1..n -> 1..n] : \A i, j \in 1..n : scores[i][f[i]] <= scores[i][j]}

\* line 238: munkres(scores) of munkres-js returns a complete assignment of
\* minimum total cost; which one among several of equal cost is left open
Munkres(scores) ==
    LET n == Len(scores)
        complete == Assignments(n)
        cost == [f \in complete |-> TotalCost(scores, f, n)]
    IN  {f \in complete : \A g \in complete : cost[f] <= cost[g]}

\* the tie breakers drawn in one pass, one per cell: an assignment that is a
\* cheapest one for some tie breakers in 0..max is a cheapest one when its own
\* cells draw 0 and all other cells max, so these draws, one per assignment,
\* reach every result munkres can return
TieBreaks(n, max) ==
    {[i \in 1..n |-> [j \in 1..n |-> IF f[i] = j THEN RandCeilMin ELSE RandCeilMax(max)]] :
        f \in Assignments(n)}

\* lines 233-235, for the tie breakers tieBreaks[i][j]
Scores(tieBreaks) ==
    [i \in 1..NumSantas |->
        [j \in 1..NumSantas |->
            Score(santas[i], bMatches[j][1], tieBreaks[i][j], blocked[santas[i]],
                  always[santas[i]], bMatches, arrays["caller"], allGroups)]]

\* lines 232-242: one pass of the for loop: score, assign, record
AssignSlot ==
    /\ pc = "slot"
    /\ slot < maxCount
    /\ \E tieBreaks \in TieBreaks(NumSantas, Pow(NumSantas, 2)) :
          \E f \in Munkres(Scores(tieBreaks)) :
              /\ assignments' = f
              /\ bMatches' = [i \in 1..NumSantas |->
                                <<bMatches[i][1], Append(bMatches[i][2], santas[f[i]])>>]
    /\ slot' = slot + 1
    /\ UNCHANGED <<inputVars, arrays, remainingMatches, attempts, calls, evictions, pc,
                   err, result, greedyVars, scriptVars>>

\* lines 232 and 245: the loop ends and matches is returned
ReturnOptimal ==
    /\ pc = "slot"
    /\ slot >= maxCount
    /\ result' = bMatches
    /\ pc' = "assigned"
    /\ UNCHANGED <<inputVars, arrays, remainingMatches, attempts, calls, evictions, err,
                   greedyVars, optimalVars, scriptVars>>

\* a round of the years before the first santa of the roster joined, when a
\* santa "Z", who has left since, took part: the second santa gave to Z, every
\* later santa to the santa before it, and Z to the last santa
OldRound ==
    [i \in 1..NumSantas |->
        IF i = 1 THEN <<"Z", <<santas[NumSantas]>>>>
        ELSE IF i = 2 THEN <<santas[2], <<"Z">>>>
        ELSE <<santas[i], <<santas[i - 1]>>>>]

\* config.previousMatches made of len such rounds
OldHistory(len) == [k \in 1..len |-> OldRound]

\* the state when matchSantas is called (line 417), for a validated config
InitB ==
    /\ santas = SmallRoster
    /\ \/ /\ blocked \in ListsPerSanta(MaxConstraints)
          /\ always \in ListsPerSanta(MaxConstraints - SumLen(blocked, Names))
          /\ allGroups \in GroupChoices
          /\ arrays = [caller |-> <<>>, local |-> <<>>]
       \/ /\ blocked \in ListsPerSanta(MaxHistoryConstraints)
          /\ always = [n \in Names |-> <<>>]
          /\ allGroups = <<>>
          /\ \E h \in (Histories \ {<<>>}) \cup {OldHistory(len) : len \in 1..MaxOldHistory} :
                arrays = [caller |-> h, local |-> <<>>]
    /\ maxCount \in 1..MaxCount
    /\ maxRetries = 0
    /\ remainingMatches = NoValue
    /\ attempts = 0
    /\ calls = 0
    /\ evictions = 0
    /\ pc = "slot"
    /\ err = NoValue
    /\ result = NoValue
    /\ matchCounts = [n \in Names |-> 0]
    /\ allMatches = <<>>
    /\ remainingAlways = <<>>
    /\ options = <<>>
    /\ matches = <<>>
    /\ bMatches = [i \in 1..NumSantas |-> <<santas[i], <<>>>>]
    /\ slot = 0
    /\ assignments = <<>>
    /\ ScriptUnused

NextB ==
    \/ AssignSlot
    \/ ReturnOptimal

SpecB == InitB /\ [][NextB]_vars

----------------------------------------------------------------------------
\* Both matchers on the roster of four

\* santa.always of the four santas: no always list, or the last santa always
\* gives to the first
LargeAlways ==
    {[n \in Names |-> <<>>],
     [n \in Names |-> IF n = santas[NumSantas] THEN <<santas[1]>> ELSE <<>>]}

\* the state when either matcher is called for the four santas with no
\* blocked list and no group: retryMatchSantas of
\* src/unnamed/part_000 (line 231) or matchSantas of src/secret-santa.js
\* (line 417)
InitLarge ==
    /\ santas = LargeRoster
    /\ blocked = [n \in Names |-> <<>>]
    /\ always \in LargeAlways
    /\ allGroups = <<>>
    /\ \E h \in Histories : arrays = [caller |-> h, local |-> <<>>]
    /\ maxCount \in 1..MaxCount
    /\ \/ /\ pc = "start"
          /\ maxRetries \in 0..MaxRetries
          /\ bMatches = <<>>
       \/ /\ pc = "slot"
          /\ maxRetries = 0
          /\ bMatches = [i \in 1..NumSantas |-> <<santas[i], <<>>>>]
    /\ remainingMatches = NoValue
    /\ attempts = 0
    /\ calls = 0
    /\ evictions = 0
    /\ err = NoValue
    /\ result = NoValue
    /\ matchCounts = [n \in Names |-> 0]
    /\ allMatches = <<>>
    /\ remainingAlways = <<>>
    /\ options = <<>>
    /\ matches = <<>>
    /\ slot = 0
    /\ assignments = <<>>
    /\ ScriptUnused

NextLarge ==
    \/ Next
    \/ NextB

SpecLarge == InitLarge /\ [][NextLarge]_vars

----------------------------------------------------------------------------
\* The script of src/secret-santa.js: validation (lines 82-136 and 290-293)

\* names a config can mention that are not names of the roster
UnknownNames == {"X", "Y"}

\* no Error thrown
NoError == [kind |-> "none", name |-> NoValue]

\* least element of a non-empty set of numbers
Least(S) == CHOOSE i \in S : \A j \in S : i <= j

\* the first entry of list that is not in keys, NoValue when all are
FirstMissing(list, keys) ==
    LET missing == {i \in 1..Len(list) : list[i] \notin keys}
    IN  IF missing = {} THEN NoValue ELSE list[Least(missing)]

\* mutant of ToSantaMapError: map.has is not consulted
ToSantaMapErrorNever(list) == NoError

\* lines 82-94: toSantaMap throws at the first santa whose name is already a key
ToSantaMapError(list) ==
    LET repeats == {i \in 1..Len(list) : \E j \in 1..(i - 1) : list[j] = list[i]}
    IN  IF repeats = {} THEN NoError
        ELSE [kind |-> "duplicate", name |-> list[Least(repeats)]]

\* lines 97-112: what the loop body throws for one santa of the map
SantaError(name, keys, emailsF, blockedF, alwaysF) ==
    IF emailsF[name] # "valid" THEN [kind |-> "email", name |-> name]
    ELSE IF FirstMissing(blockedF[name], keys) # NoValue
         THEN [kind |-> "blocked", name |-> FirstMissing(blockedF[name], keys)]
    ELSE IF FirstMissing(alwaysF[name], keys) # NoValue
         THEN [kind |-> "always", name |-> FirstMissing(alwaysF[name], keys)]
    ELSE NoError

\* mutant of ValidateSantaMapError: only the first santa of the map is checked
ValidateSantaMapErrorFirstOnly(list, emailsF, blockedF, alwaysF) ==
    LET keys == {list[i] : i \in 1..Len(list)}
    IN  IF list = <<>> THEN NoError
        ELSE SantaError(list[1], keys, emailsF, blockedF, alwaysF)

\* lines 96-114: validateSantaMap throws for the first santa, in the order of
\* the map, that has an invalid email or an unknown blocked or always name
ValidateSantaMapError(list, emailsF, blockedF, alwaysF) ==
    LET keys == {list[i] : i \in 1..Len(list)}
        bad == {i \in 1..Len(list) :
                   SantaError(list[i], keys, emailsF, blockedF, alwaysF) # NoError}
    IN  IF bad = {} THEN NoError
        ELSE SantaError(list[Least(bad)], keys, emailsF, blockedF, alwaysF)

\* lines 116-124: validateGroups throws at the first unknown name of a group
ValidateGroupsError(list, groups) ==
    LET keys == {list[i] : i \in 1..Len(list)}
        missing == FirstMissing(Flat(groups), keys)
    IN  IF missing = NoValue THEN NoError ELSE [kind |-> "group", name |-> missing]

\* lines 126-136: what validateSantaToRemove throws; config.previousMatches.at(-1)
\* of an empty array is undefined, and undefined.every a TypeError
ValidateSantaToRemoveError(f, previousMatches) ==
    IF f.remove = NoValue THEN NoError
    ELSE IF f.reminder THEN [kind |-> "removeInReminder", name |-> f.remove]
    ELSE IF previousMatches = <<>> THEN [kind |-> "TypeError", name |-> "every"]
    ELSE LET last == previousMatches[Len(previousMatches)]
         IN  IF \A i \in 1..Len(last) : last[i][1] # f.remove
             THEN [kind |-> "removeNotFound", name |-> f.remove]
             ELSE NoError

\* a step of the validation: the script goes on to `next`, or stops with the
\* error thrown
Validate(at, error, next) ==
    /\ pc = at
    /\ IF error = NoError
       THEN pc' = next /\ err' = err
       ELSE pc' = "failed" /\ err' = error
    /\ UNCHANGED <<inputVars, arrays, remainingMatches, attempts, calls, evictions,
                   result, greedyVars, optimalVars, scriptVars>>

\* line 290
ToSantaMap == Validate("toSantaMap", ToSantaMapError(santas), "validateSantaMap")

\* line 291
ValidateSantaMap ==
    Validate("validateSantaMap", ValidateSantaMapError(santas, emails, blocked, always),
             "validateGroups")

\* line 292
ValidateGroups ==
    Validate("validateGroups", ValidateGroupsError(santas, allGroups), "validateSantaToRemove")

\* line 293
ValidateSantaToRemove ==
    Validate("validateSantaToRemove", ValidateSantaToRemoveError(flags, arrays["caller"]),
             "main")

----------------------------------------------------------------------------
\* The script of src/secret-santa.js: removing a santa (lines 248-280)

\* line 249: config.previousMatches.at(-1)
LastMatches(previousMatches) == previousMatches[Len(previousMatches)]

\* line 250 (and 408): config.previousMatches.slice(0, -1)
OlderMatches(previousMatches) == SubSeq(previousMatches, 1, Len(previousMatches) - 1)

\* line 252: the pairs of the last round whose assignees include the santa
BrokenMatches(lastMatches, santa) ==
    Filter(lastMatches, LAMBDA m : Includes(m[2], santa))

\* line 254: the assignees of the santa in the last round
BrokenAssignees(lastMatches, santa) ==
    Filter(lastMatches, LAMBDA m : m[1] = santa)[1][2]

\* lines 255 and 259: [[santa, []], ...brokenAssigneesAsMatches]
RepairMatches(giver, brokenAssignees) ==
    << <<giver, <<>>>> >> \o [k \in 1..Len(brokenAssignees) |-> <<brokenAssignees[k], <<>>>>]

\* the ways to pair rows 1..r with columns 1..c, no row and no column twice,
\* as sets of pairs <<row, column>>
Pairings(r, c) ==
    IF r <= c
    THEN {{<<i, f[i]>> : i \in 1..r} :
             f \in {g \in [1..r -> 1..c] : \A i, j \in 1..r : i # j => g[i] # g[j]}}
    ELSE {{<<f[j], j>> : j \in 1..c} :
             f \in {g \in [1..c -> 1..r] : \A i, j \in 1..c : i # j => g[i] # g[j]}}

\* the cost of a set of pairs
RECURSIVE PairsCost(_, _)
PairsCost(scores, pairs) ==
    IF pairs = {} THEN 0
    ELSE LET a == CHOOSE b \in pairs : TRUE
         IN  scores[a[1]][a[2]] + PairsCost(scores, pairs \ {a})

\* line 263: munkres(matrix) of munkres-js for a matrix of r rows and c columns
\* pads it with zeros to a square one and returns the pairs of a cheapest
\* complete assignment that lie in the matrix: min(r, c) pairs
MunkresPairs(scores, r, c) ==
    LET all == Pairings(r, c)
        cost == [pairs \in all |-> PairsCost(scores, pairs)]
    IN  {pairs \in all : \A other \in all : cost[pairs] <= cost[other]}

\* the tie breakers drawn for the r x c matrix, one draw per pairing (as
\* TieBreaks)
PairTieBreaks(r, c, max) ==
    {[i \in 1..r |-> [j \in 1..c |->
         IF <<i, j>> \in pairs THEN RandCeilMin ELSE RandCeilMax(max)]] :
        pairs \in Pairings(r, c)}

\* lines 257-263: the scores of the broken santas for the broken assignees,
\* without the column of the santa itself (slice(1)); the tie breaker of that
\* column is drawn and dropped
RepairScores(tieBreaks, brokenSantas, brokenAssignees, olderMatches) ==
    [i \in 1..Len(brokenSantas) |->
        [j \in 1..Len(brokenAssignees) |->
            Score(brokenSantas[i], brokenAssignees[j], tieBreaks[i][j],
                  blocked[brokenSantas[i]], always[brokenSantas[i]],
                  RepairMatches(brokenSantas[i], brokenAssignees), olderMatches, allGroups)]]

\* lines 265-273: the update of the broken match of index i, given column j
Update(brokenMatches, brokenAssignees, santa, i, j) ==
    <<brokenMatches[i][1],
      Append(Filter(brokenMatches[i][2], LAMBDA a : a # santa), brokenAssignees[j])>>

\* lines 275-277: the last round without the santa, each pair replaced by the
\* first update of its name, if there is one
UpdatedMatches(lastMatches, santa, pairs) ==
    LET brokenMatches == BrokenMatches(lastMatches, santa)
        brokenAssignees == BrokenAssignees(lastMatches, santa)
        updateOf(m) ==
            LET found == {a \in pairs : brokenMatches[a[1]][1] = m[1]}
            IN  IF found = {} THEN m
                ELSE LET first == CHOOSE a \in found : \A b \in found : a[1] <= b[1]
                     IN  Update(brokenMatches, brokenAssignees, santa, first[1], first[2])
    IN  Map(Filter(lastMatches, LAMBDA m : m[1] # santa), updateOf)

\* what is left unchanged by the steps of the script after the validation
ScriptFrame ==
    UNCHANGED <<inputVars, arrays, remainingMatches, attempts, calls, evictions,
                greedyVars, emails, flags, runs>>

\* lines 252-263: what the call of munkres can give: a set of pairs, or a
\* TypeError. A broken santa that is no santa of the map makes
\* scoreSantaMatches read a property of undefined; munkres-js is not among the
\* sources, and for no broken santa at all, munkres([]), it either returns no
\* pair or throws
RepairOutcomes(previousMatches, santa) ==
    LET lastMatches == LastMatches(previousMatches)
        olderMatches == OlderMatches(previousMatches)
        brokenSantas == Map(BrokenMatches(lastMatches, santa), LAMBDA m : m[1])
        brokenAssignees == BrokenAssignees(lastMatches, santa)
        r == Len(brokenSantas)
        c == Len(brokenAssignees)
        crash == [crashed |-> TRUE, pairs |-> {}]
    IN  IF \E i \in 1..r : brokenSantas[i] \notin Names THEN {crash}
        ELSE (IF r = 0 THEN {crash} ELSE {}) \cup
             {[crashed |-> FALSE, pairs |-> pairs] :
                 pairs \in UNION {MunkresPairs(RepairScores(tieBreaks, brokenSantas,
                                                            brokenAssignees, olderMatches), r, c) :
                                     tieBreaks \in PairTieBreaks(r, c, Pow(c + 1, 2))}}

\* lines 404-406: removeSantaFromLastMatches(santaToRemove, santaMap)
RemoveSanta ==
    /\ pc = "main"
    /\ flags.remove # NoValue
    /\ \E outcome \in RepairOutcomes(arrays["caller"], flags.remove) :
          IF outcome.crashed
          THEN /\ pc' = "failed"
               /\ err' = [kind |-> "TypeError", name |-> flags.remove]
               /\ UNCHANGED <<result, assignments>>
          ELSE /\ pc' = "assigned"
               /\ err' = err
               /\ assignments' = outcome.pairs
               /\ result' = <<UpdatedMatches(LastMatches(arrays["caller"]), flags.remove,
                                             outcome.pairs),
                              Map(BrokenMatches(LastMatches(arrays["caller"]), flags.remove),
                                  LAMBDA m : m[1])>>
    /\ UNCHANGED <<bMatches, slot, file, outbox>>
    /\ ScriptFrame

\* lines 411-413: the reminder goes out for the last round; for an empty
\* history sendEmails(undefined) rejects
Remind ==
    /\ pc = "main"
    /\ flags.remove = NoValue
    /\ flags.reminder
    /\ IF arrays["caller"] = <<>>
       THEN /\ pc' = "rejected"
            /\ err' = [kind |-> "TypeError", name |-> "map"]
            /\ result' = result
       ELSE /\ pc' = "assigned"
            /\ err' = err
            /\ result' = LastMatches(arrays["caller"])
    /\ UNCHANGED <<optimalVars, file, outbox>>
    /\ ScriptFrame

\* lines 415-417 and 228-230: matchSantas is called
StartMatch ==
    /\ pc = "main"
    /\ flags.remove = NoValue
    /\ ~flags.reminder
    /\ pc' = "slot"
    /\ bMatches' = [i \in 1..NumSantas |-> <<santas[i], <<>>>>]
    /\ slot' = 0
    /\ UNCHANGED <<err, result, assignments, file, outbox>>
    /\ ScriptFrame

----------------------------------------------------------------------------
\* The script of src/secret-santa.js: emails and the history file (lines 282-286,
\* 300-422)

\* the script removes a santa (line 404), sends a reminder (line 411), or
\* generates a list (line 415)
Removing == flags.remove # NoValue
Reminding == flags.remove = NoValue /\ flags.reminder

\* the first argument of sendEmails (lines 407, 413, 418)
MatchesToSend == IF Removing THEN result[1] ELSE result

\* lines 358-360: the names of matchRecipients
MatchRecipients ==
    LET recipients == IF Removing
                      THEN Filter(MatchesToSend, LAMBDA m : Includes(result[2], m[1]))
                      ELSE MatchesToSend
    IN  {recipients[i][1] : i \in 1..Len(recipients)}

\* lines 306-324: sendEmail logs in the command line test and cannot fail
\* there; client.sendAsync can reject
CanReject == flags.test # "cli"

\* lines 351-356: the full list goes to the organizer and is awaited
SendListEmail ==
    /\ pc = "assigned"
    /\ \E delivered \in (IF CanReject THEN BOOLEAN ELSE {TRUE}) :
          IF delivered
          THEN /\ outbox' = outbox \cup {<<"list", "organizer">>}
               /\ pc' = "sendMain"
          ELSE /\ outbox' = outbox
               /\ pc' = "rejected"
    /\ UNCHANGED <<err, result, optimalVars, file>>
    /\ ScriptFrame

\* the emails of one Promise.all: those of `delivered` go out; the promise
\* resolves when all did and rejects otherwise
SendAll(kind, delivered, next) ==
    /\ outbox' = outbox \cup {<<kind, name>> : name \in delivered}
    /\ pc' = IF delivered = MatchRecipients THEN next ELSE "rejected"
    /\ UNCHANGED <<err, result, optimalVars, file>>
    /\ ScriptFrame

\* lines 362-376: the main emails
SendMainEmails ==
    /\ pc = "sendMain"
    /\ \E delivered \in (IF CanReject THEN SUBSET MatchRecipients ELSE {MatchRecipients}) :
          SendAll("main", delivered,
                  IF flags.notify THEN "sendConspirators" ELSE "resolved")

\* lines 378-400: the conspirator emails, if config.notifyConspirators
SendConspiratorEmails ==
    /\ pc = "sendConspirators"
    /\ \E delivered \in (IF CanReject THEN SUBSET MatchRecipients ELSE {MatchRecipients}) :
          SendAll("conspirators", delivered, "resolved")

\* mutant of ShouldWrite: the email test is not consulted
ShouldWriteInEmailTest(f) == f.test # "cli" /\ ~f.reminder

\* line 283: !isCommandLineTest && !isEmailTest && !isReminderEmail
ShouldWrite(f) == f.test = "none" /\ ~f.reminder

\* mutant of HistoryToWrite: the updated round is appended to the whole history
HistoryToWriteAppended(previousMatches, removing, round) ==
    Append(previousMatches, round)

\* lines 408 and 419: the argument of writePreviousMatches
HistoryToWrite(previousMatches, removing, round) ==
    IF removing THEN Append(OlderMatches(previousMatches), round)
    ELSE Append(previousMatches, round)

\* lines 407-410 and 418-421: the then callback of sendEmails, with
\* writePreviousMatches (lines 282-286)
ThenWrite ==
    /\ pc = "resolved"
    /\ ~Reminding
    /\ file' = IF ShouldWrite(flags)
               THEN HistoryToWrite(arrays["caller"], Removing, MatchesToSend)
               ELSE file
    /\ pc' = "done"
    /\ UNCHANGED <<err, result, optimalVars, outbox>>
    /\ ScriptFrame

\* lines 413-414: sendEmails of the reminder has no then callback
ReminderDone ==
    /\ pc = "resolved"
    /\ Reminding
    /\ pc' = "done"
    /\ UNCHANGED <<err, result, optimalVars, file, outbox>>
    /\ ScriptFrame

\* the script is run at most MaxRuns times
MaxRuns == 2

\* lines 8-27 and 404: the script is run again, with --remove, on the config
\* file after a run that changed it
RunAgain ==
    /\ pc = "done"
    /\ file # arrays["caller"]
    /\ runs + 1 < MaxRuns
    /\ runs' = runs + 1
    /\ arrays' = [caller |-> file, local |-> <<>>]
    /\ \E santa \in Names : flags' = [flags EXCEPT !.remove = santa]
    /\ pc' = "toSantaMap"
    /\ err' = NoError
    /\ result' = NoValue
    /\ bMatches' = <<>>
    /\ slot' = 0
    /\ assignments' = <<>>
    /\ outbox' = {}
    /\ UNCHANGED <<inputVars, remainingMatches, attempts, calls, evictions, greedyVars,
                   emails, file>>

----------------------------------------------------------------------------
\* The script of src/secret-santa.js: the configs it is run on

\* the roster of five, in config order
RemovalRoster == <<"A", "B", "C", "D", "E">>

\* config.santas as a list of three names, whether or not a name repeats
RawRosters == [1..3 -> {"A", "B", "C"}]

\* santa.email per name: every email matches EMAIL_PATTERN, or all but one do
EmailChoices ==
    {[n \in Names |-> IF n = bad THEN "invalid" ELSE "valid"] : bad \in Names \cup {NoValue}}

\* the blocked and always lists of a config that is yet to be validated hold
\* at most MaxRawEntries entries in all
MaxRawEntries == 1

\* per-santa lists of names, of the roster or not, with at most n entries in
\* the whole roster
RawListsPerSanta(n) ==
    {f \in [Names -> SeqsUpTo(Names \cup UnknownNames, n)] : SumLen(f, Names) <= n}

\* config.groups: no group, one group, or two, of names of the roster or not
RawGroupChoices ==
    {<<>>,
     << <<"A", "B">> >>,
     << <<"A", "X">> >>,
     << <<"Y", "X">> >>,
     << <<"A", "B">>, <<"C", "X">> >>,
     << <<"Y", "B">>, <<"C", "X">> >>}

\* the command lines, and config.notifyConspirators; "Z" is no santa
FlagChoices ==
    [test : {"none", "cli", "email"}, reminder : BOOLEAN,
     remove : {NoValue} \cup Names \cup {"Z"}, notify : BOOLEAN]

\* the round a run with count Len(shifts) wrote: in pass k every santa is
\* matched with the santa shifts[k] places after it in the roster
ShiftRound(shifts) ==
    [i \in 1..NumSantas |->
        <<santas[i],
          [k \in 1..Len(shifts) |-> santas[((i + shifts[k] - 1) % NumSantas) + 1]]>>]

\* such rounds, for the counts up to MaxCount, no shift twice
ShiftRounds ==
    {ShiftRound(shifts) :
        shifts \in {t \in SeqsUpTo(1..(NumSantas - 1), Min(MaxCount, NumSantas - 1)) :
                       Len(t) >= 1 /\ NoDuplicates(t)}}

\* the state when the script starts (line 290)
InitRun ==
    /\ \/ \* any list of three names, no constraint, a plain run
          /\ santas \in RawRosters
          /\ emails \in EmailChoices
          /\ blocked = [n \in Names |-> <<>>]
          /\ always = [n \in Names |-> <<>>]
          /\ allGroups = <<>>
          /\ arrays = [caller |-> <<>>, local |-> <<>>]
          /\ maxCount = 1
          /\ flags = NoFlags
       \/ \* three santas, blocked and always lists and groups with names of
          \* the roster or not, a plain run
          /\ santas = SmallRoster
          /\ emails \in EmailChoices
          /\ blocked \in RawListsPerSanta(MaxRawEntries)
          /\ always \in RawListsPerSanta(MaxRawEntries - SumLen(blocked, Names))
          /\ allGroups \in RawGroupChoices
          /\ arrays = [caller |-> <<>>, local |-> <<>>]
          /\ maxCount = 1
          /\ flags = NoFlags
       \/ \* three santas, a history, every command line
          /\ santas = SmallRoster
          /\ emails = [n \in Names |-> "valid"]
          /\ blocked = [n \in Names |-> <<>>]
          /\ always = [n \in Names |-> <<>>]
          /\ allGroups = <<>>
          /\ \E h \in Histories : arrays = [caller |-> h, local |-> <<>>]
          /\ maxCount \in 1..MaxCount
          /\ flags \in FlagChoices
       \/ \* five santas, one of them to be removed from the last round
          /\ santas = RemovalRoster
          /\ emails = [n \in Names |-> "valid"]
          /\ blocked = [n \in Names |-> <<>>]
          /\ always = [n \in Names |-> <<>>]
          /\ allGroups \in {<<>>, << <<santas[1], santas[2]>> >>}
          /\ \E last \in ShiftRounds :
                /\ arrays = [caller |-> <<PastRound(1), last>>, local |-> <<>>]
                /\ maxCount = Len(last[1][2])
          /\ \E santa \in Names : \E test \in {"none", "cli"} :
                flags = [test |-> test, reminder |-> FALSE, remove |-> santa, notify |-> FALSE]
    /\ maxRetries = 0
    /\ remainingMatches = NoValue
    /\ attempts = 0
    /\ calls = 0
    /\ evictions = 0
    /\ pc = "toSantaMap"
    /\ err = NoError
    /\ result = NoValue
    /\ matchCounts = [n \in Names |-> 0]
    /\ allMatches = <<>>
    /\ remainingAlways = <<>>
    /\ options = <<>>
    /\ matches = <<>>
    /\ bMatches = <<>>
    /\ slot = 0
    /\ assignments = <<>>
    /\ file = arrays["caller"]
    /\ outbox = {}
    /\ runs = 0

NextRun ==
    \/ ToSantaMap
    \/ ValidateSantaMap
    \/ ValidateGroups
    \/ ValidateSantaToRemove
    \/ RemoveSanta
    \/ Remind
    \/ StartMatch
    \/ AssignSlot
    \/ ReturnOptimal
    \/ SendListEmail
    \/ SendMainEmails
    \/ SendConspiratorEmails
    \/ ThenWrite
    \/ ReminderDone
    \/ RunAgain

SpecRun == InitRun /\ [][NextRun]_vars

----------------------------------------------------------------------------
\* Observers used by the properties

\* the Round a successful run returned: the last entry of the returned history
ReturnedRound == result[Len(result)]

\* the history the caller passed in: config.previousMatches
CallerHistory == arrays["caller"]

\* name and x are members of one group
ShareGroup(name, x) ==
    \E g \in 1..Len(allGroups) : Includes(allGroups[g], name) /\ Includes(allGroups[g], x)

\* the hard constraints on a pair: self, blocked, groupmate
Forbidden(name, x) ==
    \/ x = name
    \/ Includes(blocked[name], x)
    \/ ShareGroup(name, x)

\* all assignees of a round, in order
Assignees(round) == Flat(Map(round, LAMBDA m : m[2]))

NoAlways == \A n \in Names : always[n] = <<>>

----------------------------------------------------------------------------
\* C1 (as claimed): in every Round returned by the greedy matcher no giver is
\* assigned itself, a name of its blocked list, or a member of one of its groups.
C1_NoForbiddenAssignee ==
    pc = "returned" =>
        \A i \in 1..Len(ReturnedRound) :
            \A k \in 1..Len(ReturnedRound[i][2]) :
                ~Forbidden(ReturnedRound[i][1], ReturnedRound[i][2][k])

\* C1 (amended): in every Round returned by the greedy matcher, every assignee
\* of a giver G that was drawn from options, that is every assignee after the
\* first |G.always| ones, is neither G itself, nor a name of G.blocked, nor a
\* member of one of G's groups.
C1_NoForbiddenDrawnAssignee ==
    pc = "returned" =>
        \A i \in 1..Len(ReturnedRound) :
            \A k \in 1..Len(ReturnedRound[i][2]) :
                k > Len(always[ReturnedRound[i][1]]) =>
                    ~Forbidden(ReturnedRound[i][1], ReturnedRound[i][2][k])

\* C1 witness: a returned Round in which one giver holds a forbidden name taken
\* from its always list, and a giver with a blocked list and a giver with a
\* group hold names drawn from options.
C1_Witness ==
    /\ pc = "returned"
    /\ \E i \in 1..Len(ReturnedRound) :
          /\ Len(always[ReturnedRound[i][1]]) > 0
          /\ Forbidden(ReturnedRound[i][1], ReturnedRound[i][2][1])
    /\ \E i \in 1..Len(ReturnedRound) :
          /\ Len(ReturnedRound[i][2]) > Len(always[ReturnedRound[i][1]])
          /\ \/ blocked[ReturnedRound[i][1]] # <<>>
             \/ \E x \in Names \ {ReturnedRound[i][1]} : ShareGroup(ReturnedRound[i][1], x)

C3_CountDistinctAssignees ==
    (pc = "returned" /\ NoAlways) =>
        \A i \in 1..Len(ReturnedRound) :
            /\ Len(ReturnedRound[i][2]) = maxCount
            /\ NoDuplicates(ReturnedRound[i][2])

\* the first picks of a giver are its always entries, last declared first
AlwaysPrefix(name, picked) ==
    \A j \in 1..Min(Len(always[name]), Len(picked)) :
        picked[j] = always[name][Len(always[name]) - j + 1]

\* C4: for every giver G of a returned Round the first min(|G.always|, count)
\* assignees are the last entries of G.always in reverse declaration order,
\* whatever blocked, groups, history and the cap say; while a giver is being
\* served, nothing is drawn from options before its always list is used up.
C4_AlwaysServedFirst ==
    /\ pc = "returned" =>
          \A i \in 1..Len(ReturnedRound) :
              /\ Len(ReturnedRound[i][2]) >= Min(Len(always[ReturnedRound[i][1]]), maxCount)
              /\ AlwaysPrefix(ReturnedRound[i][1], ReturnedRound[i][2])
              /\ Len(always[ReturnedRound[i][1]]) <= maxCount =>
                    \A a \in 1..Len(always[ReturnedRound[i][1]]) :
                        Includes(ReturnedRound[i][2], always[ReturnedRound[i][1]][a])
    /\ pc = "pick" =>
          /\ AlwaysPrefix(CurrentName, matches)
          /\ Len(remainingAlways) =
                Len(always[CurrentName]) - Min(Len(always[CurrentName]), Len(matches))

\* C4 witness: a returned Round with count 2 and a giver with two different
\* always entries, one of them forbidden for it (itself, or a groupmate).
C4_Witness ==
    /\ pc = "returned"
    /\ maxCount = 2
    /\ \E n \in Names :
          /\ Len(always[n]) = 2
          /\ always[n][1] # always[n][2]
          /\ \E a \in 1..2 : Forbidden(n, always[n][a])

\* the number of matchSantas calls a run can make
CallBound == (maxRetries + 1) * (Len(CallerHistory) + 1)

\* steps left within the current matchSantas call, at most StepBound
StepBound == NumSantas * (maxCount + 3) + maxCount + 4
StepsLeft ==
    CASE pc = "santa" -> (NumSantas - Len(allMatches)) * (maxCount + 3) + maxCount + 4
      [] pc = "pick" -> (NumSantas - Len(allMatches)) * (maxCount + 3)
                           + (maxCount - Len(matches)) + 3
      [] pc = "caught" -> 1
      [] OTHER -> 0

\* a measure that every step of a run decreases
Rank ==
    IF pc = "start" THEN CallBound * (StepBound + 1) + 1
    ELSE (CallBound - calls) * (StepBound + 1) + StepsLeft

\* C5: retryMatchSantas terminates: it makes at most
\* (maxRetries + 1) * (|history| + 1) calls of matchSantas, exactly that many
\* when it raises the error, every step brings it nearer to its end, and it
\* stops only by returning a Round or raising the error.
C5_BoundedRetries ==
    /\ [](/\ calls <= CallBound
          /\ pc = "thrown" => calls = CallBound
          /\ Rank >= 0
          /\ pc \notin {"returned", "thrown"} => ENABLED Next)
    /\ [][Rank' < Rank]_vars

\* C5 witness: the error raised after 2 * 3 calls, each history round evicted.
C5_Witness ==
    /\ pc = "thrown"
    /\ maxRetries = 1
    /\ Len(CallerHistory) = 2
    /\ calls = 6
    /\ evictions = 2

\* C6: the caller's history array is never changed, and a successful run
\* returns it without its `evictions` oldest rounds, followed by the new Round.
C6_CallerHistoryKept ==
    /\ [][arrays'["caller"] = arrays["caller"]]_vars
    /\ [](pc = "returned" =>
            /\ evictions <= Len(CallerHistory)
            /\ result = Append(SubSeq(CallerHistory, evictions + 1, Len(CallerHistory)),
                               allMatches)
            /\ Len(result) = Len(CallerHistory) - evictions + 1)

\* C6 witness: a run returns after evicting the older of two rounds.
C6_Witness ==
    /\ pc = "returned"
    /\ Len(CallerHistory) = 2
    /\ evictions = 1
    /\ CallerHistory[1] # CallerHistory[2]

\* C7: matchSantas throws exactly when a pick is needed and both the rest of
\* the always list and options are empty; the error names the slot (picks made
\* for the giver + 1) and the giver (givers completed + 1), and nothing is
\* returned.
C7_ExhaustionError ==
    /\ [][(pc = "pick" /\ Len(matches) < maxCount) =>
             ((pc' = "caught") <=> (remainingAlways = <<>> /\ options = <<>>))]_vars
    /\ [][(pc' = "caught" /\ pc # "caught") =>
             (pc = "pick" /\ Len(matches) < maxCount)]_vars
    /\ [](pc \in {"caught", "thrown"} =>
            /\ err.matchNum = Len(matches) + 1
            /\ err.santaNum = Len(allMatches) + 1
            /\ err.name = santas[err.santaNum]
            /\ Len(allMatches) < NumSantas
            /\ result = NoValue)

\* C7 witness: the second pick of the second giver cannot be made.
C7_Witness ==
    /\ pc = "caught"
    /\ err.matchNum = 2
    /\ err.santaNum = 2

\* a complete count-1 Round, as a function giver -> assignee, that respects the
\* hard constraints and the cap
ValidRound(f) ==
    /\ \A n \in Names : ~Forbidden(n, f[n])
    /\ \A n, m \in Names : n # m => f[n] # f[m]

\* the scenario of C8: no retries, count 1, one prior Round with A -> B, and no
\* valid complete Round other than ones that repeat A -> B
C8_Scenario ==
    /\ maxRetries = 0
    /\ maxCount = 1
    /\ NoAlways
    /\ Len(CallerHistory) = 1
    /\ \E i \in 1..Len(CallerHistory[1]) :
          CallerHistory[1][i][1] = "A" /\ Includes(CallerHistory[1][i][2], "B")
    /\ \A f \in [Names -> Names] : ValidRound(f) => f["A"] = "B"

ForbiddenPair(i, j) == Forbidden(santas[i], santas[j])

\* some complete one-to-one assignment holds no forbidden pair
FeasibleAssignmentExists ==
    \E f \in Assignments(NumSantas) : \A i \in 1..NumSantas : ~ForbiddenPair(i, f[i])

\* C9 (as claimed): with empty always lists, whenever some complete one-to-one
\* assignment holds no forbidden pair (self, blocked, groupmate), the assignment
\* the optimal-assignment matcher chooses for a slot holds none either.
C9_NoForbiddenPairWhenFeasible ==
    (pc \in {"slot", "assigned"} /\ slot >= 1 /\ NoAlways /\ FeasibleAssignmentExists) =>
        \A i \in 1..NumSantas : ~ForbiddenPair(i, assignments[i])

\* the same for the first slot only, where nothing is matched yet
C9_FirstSlot ==
    (pc \in {"slot", "assigned"} /\ slot = 1 /\ NoAlways /\ FeasibleAssignmentExists) =>
        \A i \in 1..NumSantas : ~ForbiddenPair(i, assignments[i])

\* the same for the first slot, every santa a giver of every history round
C9_FirstSlotEvenHistory ==
    (/\ pc \in {"slot", "assigned"} /\ slot = 1 /\ NoAlways /\ FeasibleAssignmentExists
     /\ \A n \in Names : Len(SantaPreviousMatches(n, arrays["caller"])) = Len(arrays["caller"])) =>
        \A i \in 1..NumSantas : ~ForbiddenPair(i, assignments[i])

\* giver is assigned x in round
HasPair(round, giver, x) ==
    \E i \in 1..Len(round) : round[i][1] = giver /\ Includes(round[i][2], x)

\* the scenario of C10
C10_Scenario ==
    /\ santas = SmallRoster
    /\ maxCount = 1
    /\ blocked = [n \in Names |-> IF n = "B" THEN <<"C">> ELSE <<>>]
    /\ NoAlways
    /\ allGroups = << <<"A", "C">> >>
    /\ CallerHistory = <<>>

\* the Round a matcher returned, if any
RoundOut ==
    IF pc = "returned" THEN ReturnedRound
    ELSE IF pc = "assigned" THEN result
    ELSE <<>>

C10_GreedyNeverReturns ==
    C10_Scenario => pc # "returned"

\* the scenario of C11: the four santas, no constraint, count 1, empty history
C11_Scenario ==
    /\ santas = LargeRoster
    /\ \A n \in Names : blocked[n] = <<>>
    /\ NoAlways
    /\ allGroups = <<>>
    /\ maxCount = 1
    /\ CallerHistory = <<>>

\* every santa of the roster is a giver of round exactly once, with exactly
\* one assignee, which is not the giver itself
OneAssigneeEachNoSelf(round) ==
    /\ Len(round) = NumSantas
    /\ \A i \in 1..NumSantas :
          /\ round[i][1] = santas[i]
          /\ Len(round[i][2]) = 1
          /\ round[i][2][1] # santas[i]

\* C11 (as claimed): in the scenario every run of either matcher returns a
\* Round, never the error, and in it each of A, B, C, D has exactly one
\* assignee, none itself.
C11_AlwaysReturnsRound ==
    C11_Scenario =>
        /\ pc # "thrown"
        /\ pc \in {"returned", "assigned"} => OneAssigneeEachNoSelf(RoundOut)

\* C11 (amended): in the scenario every Round either matcher returns gives each
\* of A, B, C, D exactly one assignee, none itself; the optimal-assignment
\* matcher always returns one, while the greedy matcher raises the error when
\* each of its maxRetries + 1 attempts leaves the last giver without an option
\* (as the draws A -> B, B -> C, C -> A do for D), and only then.
C11_RoundOrExhaustion ==
    C11_Scenario =>
        /\ pc \in {"returned", "assigned"} => OneAssigneeEachNoSelf(RoundOut)
        /\ pc = "thrown" =>
              /\ calls = maxRetries + 1
              /\ err = [matchNum |-> 1, santaNum |-> 4, name |-> "D"]
              /\ bMatches = <<>>
        /\ pc = "caught" =>
              /\ Len(allMatches) = 3
              /\ \A i \in 1..3 : allMatches[i][2][1] # "D"
        /\ (pc = "slot" /\ slot >= 1) =>
              \A i \in 1..NumSantas : Len(bMatches[i][2]) = 1 /\ bMatches[i][2][1] # santas[i]

\* C11 witness: in the scenario the greedy matcher has raised the error after
\* two failed attempts.
C11_Witness ==
    /\ C11_Scenario
    /\ pc = "thrown"
    /\ maxRetries = 1
    /\ calls = 2

\* the terms of the score the santa of index i gives the candidate of index j,
\* in the state the next pass of matchSantas scores
GiverTerms(i, j) ==
    Terms(santas[i], bMatches[j][1], blocked[santas[i]], always[santas[i]],
          bMatches, arrays["caller"], allGroups)

\* prevMatchCount of the santa of index i
PrevMatchCount(i) == Len(SantaPreviousMatches(santas[i], arrays["caller"]))

\* the weight of term k of a santa with p earlier rounds
Weight(n, p, k) ==
    IF k <= p THEN HistoryWeight(n, k - 1) ELSE TierWeight(n, p, k - p + 2)

RECURSIVE WeightSum(_, _, _)
\* the weights of terms 1 .. k together
WeightSum(n, p, k) == IF k = 0 THEN 0 ELSE Weight(n, p, k) + WeightSum(n, p, k - 1)

\* every weight exceeds the largest tie breaker plus all lower weights together
DominatingChain(n, p) ==
    \A k \in 1..(p + 8) : Weight(n, p, k) > RandCeilMax(Pow(n, 2)) + WeightSum(n, p, k - 1)

\* the highest term that adds a penalty, 0 when there is none
TopRank(terms) ==
    IF \A k \in 1..Len(terms) : terms[k] <= 0 THEN 0
    ELSE CHOOSE k \in 1..Len(terms) :
            terms[k] > 0 /\ \A m \in (k + 1)..Len(terms) : terms[m] <= 0

\* the least and the largest score the terms allow, over the tie breakers
LeastScore(terms) == RandCeilMin + SumUpTo(terms, Len(terms))
LargestScore(terms, n) == RandCeilMax(Pow(n, 2)) + SumUpTo(terms, Len(terms))

\* a matrix of scores is about to be computed
Scoring == pc = "slot" /\ slot < maxCount

\* C12 (as claimed): for every giver the weights form a strictly dominating
\* chain above the tie breaker (history weights n^(i+3), then the tiers
\* n^(p+3) .. n^(p+10)), and a candidate whose highest penalty is of a higher
\* tier than another candidate's always scores higher than it.
C12_HigherTierScoresHigher ==
    Scoring =>
        \A i \in 1..NumSantas :
            /\ DominatingChain(NumSantas, PrevMatchCount(i))
            /\ \A x, y \in 1..NumSantas :
                  TopRank(GiverTerms(i, x)) > TopRank(GiverTerms(i, y)) =>
                      LeastScore(GiverTerms(i, x)) > LargestScore(GiverTerms(i, y), NumSantas)

\* C12 (amended): the weights form a strictly dominating chain as claimed, and
\* a candidate whose highest penalty is of a higher tier than another
\* candidate's scores higher than it provided the first candidate is not in
\* the giver's not-yet-matched always list, whose bonus n^(p+8) is subtracted.
C12_HigherTierScoresHigherWithoutBonus ==
    Scoring =>
        \A i \in 1..NumSantas :
            /\ DominatingChain(NumSantas, PrevMatchCount(i))
            /\ \A x, y \in 1..NumSantas :
                  (/\ TopRank(GiverTerms(i, x)) > TopRank(GiverTerms(i, y))
                   /\ GiverTerms(i, x)[PrevMatchCount(i) + AlwaysTier - 2] = 0) =>
                      LeastScore(GiverTerms(i, x)) > LargestScore(GiverTerms(i, y), NumSantas)

\* C12 witness: after the first pass, a giver with two earlier rounds scores
\* the candidate it was just matched with and a candidate it had in an earlier
\* round.
C12_Witness ==
    /\ Scoring
    /\ slot = 1
    /\ \E i, x, y \in 1..NumSantas :
          /\ PrevMatchCount(i) = 2
          /\ TopRank(GiverTerms(i, x)) = PrevMatchCount(i) + 7
          /\ TopRank(GiverTerms(i, y)) < PrevMatchCount(i) + 7
          /\ \E k \in 1..2 : GiverTerms(i, y)[k] > 0

\* the candidate of index j carries the always bonus of the santa of index i
HasBonus(i, j) == GiverTerms(i, j)[PrevMatchCount(i) + AlwaysTier - 2] < 0

\* C13 (as claimed): every entry of the cost matrix is a non-negative integer,
\* whatever the tie breaker, also for candidates in the giver's not-yet-matched
\* always list.
C13_ScoresNonNegative ==
    Scoring =>
        \A i, j \in 1..NumSantas :
            /\ LeastScore(GiverTerms(i, j)) \in Int
            /\ LeastScore(GiverTerms(i, j)) >= 0

\* C13 (amended): every entry of the cost matrix is an integer; it is
\* non-negative for every candidate that is not in the giver's not-yet-matched
\* always list and for the giver itself, and it is negative, though not below
\* -n^(p+8), for every other candidate of the not-yet-matched always list.
C13_ScoresNegativeOnlyForAlways ==
    Scoring =>
        \A i, j \in 1..NumSantas :
            /\ LeastScore(GiverTerms(i, j)) \in Int
            /\ IF HasBonus(i, j) /\ i # j
               THEN /\ LargestScore(GiverTerms(i, j), NumSantas) < 0
                    /\ LeastScore(GiverTerms(i, j)) >=
                          0 - TierWeight(NumSantas, PrevMatchCount(i), AlwaysTier)
               ELSE LeastScore(GiverTerms(i, j)) >= 0

\* C13 witness: in the second pass a giver scores one always name it was
\* matched with in the first pass and one it was not.
C13_Witness ==
    /\ Scoring
    /\ slot = 1
    /\ \E i, j, k \in 1..NumSantas :
          /\ HasBonus(i, j)
          /\ Includes(always[santas[i]], santas[k])
          /\ ~HasBonus(i, k)

\* C14: the optimal-assignment matcher never fails: while slots remain a pass
\* can always be made, every pass assigns the givers one-to-one onto the
\* santas, so after k passes every giver has exactly k assignees and every
\* santa occurs exactly k times as an assignee, and the returned Round has
\* exactly count assignees per giver.
C14_EverySlotIsAPermutation ==
    /\ (pc = "slot" /\ slot < maxCount) =>
          \A tieBreaks \in TieBreaks(NumSantas, Pow(NumSantas, 2)) :
              Munkres(Scores(tieBreaks)) # {}
    /\ pc \in {"slot", "assigned"} =>
          /\ slot <= maxCount
          /\ Len(bMatches) = NumSantas
          /\ \A i \in 1..NumSantas :
                /\ bMatches[i][1] = santas[i]
                /\ Len(bMatches[i][2]) = slot
          /\ \A n \in Names : Occurrences(Assignees(bMatches), n) = slot
          /\ slot >= 1 =>
                /\ assignments \in Assignments(NumSantas)
                /\ \A i \in 1..NumSantas : bMatches[i][2][slot] = santas[assignments[i]]
          /\ err = NoValue
    /\ pc = "assigned" =>
          /\ slot = maxCount
          /\ result = bMatches
          /\ \A i \in 1..NumSantas : Len(result[i][2]) = maxCount

\* C14 witness: a Round of two passes is returned for a roster with a
\* constraint.
C14_Witness ==
    /\ pc = "assigned"
    /\ maxCount = 2
    /\ \E n \in Names : blocked[n] # <<>> \/ always[n] # <<>>

----------------------------------------------------------------------------
\* Observers of a removal

\* removeSantaFromLastMatches has returned in this run
Removed ==
    /\ flags.remove # NoValue
    /\ pc \in {"assigned", "sendMain", "sendConspirators", "resolved", "done", "rejected"}

\* the most recent Round the removal started from, and the one it returned
RoundBefore == LastMatches(arrays["caller"])
RoundAfter == result[1]

\* the givers of a round, and the assignee list of one of them
Givers(round) == {round[i][1] : i \in 1..Len(round)}
AssigneesOf(round, giver) ==
    round[CHOOSE i \in 1..Len(round) : round[i][1] = giver][2]

\* the givers other than santa that had santa in their list
BrokenGivers(round, santa) ==
    {g \in Givers(round) \ {santa} : Includes(AssigneesOf(round, g), santa)}

\* list `after` is list `before` without santa and with one more `added`
ReplacedBy(before, after, santa, added) ==
    \A x \in Names \cup {santa} :
        Occurrences(after, x) =
            (IF x = santa THEN 0 ELSE Occurrences(before, x)) + (IF x = added THEN 1 ELSE 0)

\* C15: after removeSantaFromLastMatches(P) the repaired Round has P neither
\* as a giver nor in an assignee list, and P's former assignees are handed
\* one-to-one to the givers that had P: every broken giver gets exactly one
\* of them in place of P and every one of them goes to exactly one broken
\* giver.
C15_AssigneesRedistributed ==
    Removed =>
        LET P == flags.remove
            former == BrokenAssignees(RoundBefore, P)
            broken == BrokenGivers(RoundBefore, P)
        IN  /\ P \notin Givers(RoundAfter)
            /\ \A g \in Givers(RoundAfter) : ~Includes(AssigneesOf(RoundAfter, g), P)
            /\ broken \subseteq Givers(RoundAfter)
            /\ \E handed \in [broken -> 1..Len(former)] :
                  /\ \A j \in 1..Len(former) : Cardinality({g \in broken : handed[g] = j}) = 1
                  /\ \A g \in broken :
                        /\ Len(AssigneesOf(RoundAfter, g)) = Len(AssigneesOf(RoundBefore, g))
                        /\ ReplacedBy(AssigneesOf(RoundBefore, g), AssigneesOf(RoundAfter, g),
                                      P, former[handed[g]])

\* C15 holds of the removals from a Round without a repeated assignee
C15_FirstRemoval ==
    (Removed /\ runs = 0) => C15_AssigneesRedistributed

\* C16: a removal changes nothing else. The givers of the repaired Round are
\* those of the most recent Round without P, in the same order; a giver whose
\* list did not contain P keeps its list as it was; a broken giver keeps its
\* assignees other than P; and the history file, when it is
\* written, keeps its length and its older rounds, only its last Round being
\* replaced by the repaired one.
C16_RemovalChangesNothingElse ==
    Removed =>
        LET P == flags.remove
            kept == Filter(RoundBefore, LAMBDA m : m[1] # P)
        IN  /\ Len(RoundAfter) = Len(kept)
            /\ \A i \in 1..Len(kept) :
                  /\ RoundAfter[i][1] = kept[i][1]
                  /\ ~Includes(kept[i][2], P) => RoundAfter[i][2] = kept[i][2]
                  /\ \A k \in 1..Len(kept[i][2]) :
                        kept[i][2][k] # P =>
                            Occurrences(RoundAfter[i][2], kept[i][2][k])
                                >= Occurrences(kept[i][2], kept[i][2][k])
            /\ \/ file = arrays["caller"]
               \/ /\ pc = "done"
                  /\ Len(file) = Len(arrays["caller"])
                  /\ \A k \in 1..(Len(file) - 1) : file[k] = arrays["caller"][k]
                  /\ file[Len(file)] = RoundAfter

\* C16 witness: a removal from a history of two rounds has been written; in
\* the last round a giver without P has kept its two assignees and a broken
\* giver has kept its other assignee.
C16_Witness ==
    /\ Removed
    /\ pc = "done"
    /\ Len(arrays["caller"]) = 2
    /\ file # arrays["caller"]
    /\ \E g \in Givers(RoundAfter) :
          /\ Len(AssigneesOf(RoundBefore, g)) = 2
          /\ ~Includes(AssigneesOf(RoundBefore, g), flags.remove)
    /\ \E g \in BrokenGivers(RoundBefore, flags.remove) :
          /\ Len(AssigneesOf(RoundBefore, g)) = 2
          /\ AssigneesOf(RoundAfter, g)[1] = AssigneesOf(RoundBefore, g)[2]

\* the validation calls before validateSantaToRemove have returned, and so
\* has validateSantaToRemove, by returning or by throwing
RemovalValidated ==
    /\ pc \notin {"toSantaMap", "validateSantaMap", "validateGroups", "validateSantaToRemove"}
    /\ ~(pc = "failed" /\ err.kind \in {"duplicate", "email", "blocked", "always", "group"})

\* the run has stopped with the error of this kind, with no repair, no email
\* and no change of the history file
RejectedWith(kind) ==
    /\ pc = "failed"
    /\ err.kind = kind
    /\ result = NoValue
    /\ assignments = <<>>
    /\ outbox = {}
    /\ file = arrays["caller"]

\* C17: a removal request for P in reminder mode fails with an error, and one
\* for a P that is no giver of the most recent Round, the empty history
\* included, fails with the error that P is not in the most recent matches;
\* both before any repair, email or write, the history file unchanged.
C17_RemovalRejected ==
    (Removing /\ RemovalValidated) =>
        /\ flags.reminder => RejectedWith("removeInReminder")
        /\ (~flags.reminder /\ (arrays["caller"] = <<>> \/ flags.remove \notin Givers(RoundBefore)))
              => RejectedWith("removeNotFound")

\* C17 for the histories with a round
C17_RemovalRejectedIfHistory ==
    arrays["caller"] # <<>> => C17_RemovalRejected

----------------------------------------------------------------------------
\* Observers of the validation

\* the kinds of defect the config has
Defects ==
    {kind \in {"duplicate", "email", "blocked", "always", "group"} :
        \/ kind = "duplicate" /\ \E i, j \in 1..Len(santas) : i # j /\ santas[i] = santas[j]
        \/ kind = "email" /\ \E n \in Names : emails[n] # "valid"
        \/ kind = "blocked" /\ \E n \in Names : \E k \in 1..Len(blocked[n]) :
                                   blocked[n][k] \notin Names
        \/ kind = "always" /\ \E n \in Names : \E k \in 1..Len(always[n]) :
                                  always[n][k] \notin Names
        \/ kind = "group" /\ \E g \in 1..Len(allGroups) : \E k \in 1..Len(allGroups[g]) :
                                 allGroups[g][k] \notin Names}

\* no matching attempt, no email and no write has happened in any run
NothingDone ==
    /\ slot = 0
    /\ bMatches = <<>>
    /\ assignments = <<>>
    /\ result = NoValue
    /\ attempts = 0
    /\ outbox = {}
    /\ file = arrays["caller"]
    /\ runs = 0

\* C18: the roster is built and validated before anything else. A config with
\* a repeated name, an invalid email or a blocked, always or group entry that
\* is no roster name never gets past the validation: the run is still in it
\* or has stopped with the error of a defect the config has (a repeated name
\* first, then the santas, then the groups), and no matching attempt, email or
\* write of the history has happened; a run that stopped with an error takes
\* no further step.
C18_ValidationComesFirst ==
    /\ [](Defects # {} =>
            /\ pc \in {"toSantaMap", "validateSantaMap", "validateGroups", "failed"}
            /\ pc = "failed" => err.kind \in Defects
            /\ "duplicate" \in Defects =>
                  /\ pc \in {"toSantaMap", "failed"}
                  /\ pc = "failed" => err.kind = "duplicate"
            /\ Defects \cap {"email", "blocked", "always"} # {} =>
                  /\ pc # "validateGroups"
                  /\ pc = "failed" => err.kind # "group"
            /\ NothingDone)
    /\ [][pc # "failed"]_vars

\* C18 witness: a run has stopped at an unknown always name of a config whose
\* groups name an unknown santa too.
C18_Witness ==
    /\ pc = "failed"
    /\ err.kind = "always"
    /\ "group" \in Defects
    /\ NothingDone

\* lines 290-292: what toSantaMap, validateSantaMap and validateGroups, called
\* one after the other on a config, throw: the first error, or none
ValidationOutcome(list, emailsF, blockedF, alwaysF, groups) ==
    IF ToSantaMapError(list) # NoError THEN ToSantaMapError(list)
    ELSE IF ValidateSantaMapError(list, emailsF, blockedF, alwaysF) # NoError
         THEN ValidateSantaMapError(list, emailsF, blockedF, alwaysF)
    ELSE ValidateGroupsError(list, groups)

\* list with x put in at index k
InsertAt(list, k, x) == SubSeq(list, 1, k - 1) \o <<x>> \o SubSeq(list, k, Len(list))

\* the orders a list can be written in
RECURSIVE Orders(_)
Orders(list) ==
    IF list = <<>> THEN {<<>>}
    ELSE UNION {{InsertAt(o, k, Head(list)) : k \in 1..(Len(o) + 1)} : o \in Orders(Tail(list))}

\* the per-santa lists f with the entries of each list in any order
ListOrders(f) ==
    {g \in [DOMAIN f -> UNION {Orders(f[n]) : n \in DOMAIN f}] :
        \A n \in DOMAIN f : g[n] \in Orders(f[n])}

\* the groups in any order, the names of each group in any order
GroupOrders(groups) ==
    UNION {{h \in [1..Len(o) -> UNION {Orders(o[k]) : k \in 1..Len(o)}] :
               \A k \in 1..Len(o) : h[k] \in Orders(o[k])} :
           o \in Orders(groups)}

\* the three validation calls of the first run on the config have returned or
\* one has thrown (a later run validates the same santas and groups), and
\* what was thrown
ValidationDone ==
    /\ runs = 0
    /\ \/ pc = "validateSantaToRemove"
       \/ pc = "failed" /\ err.kind \in {"duplicate", "email", "blocked", "always", "group"}
RunOutcome == IF pc = "failed" THEN err ELSE NoError

\* the error of every defect of the config, by the call that throws it
DefectErrors(stage) ==
    IF stage = 1
    THEN {[kind |-> "duplicate", name |-> santas[i]] :
             i \in {j \in 1..Len(santas) : \E k \in 1..(j - 1) : santas[k] = santas[j]}}
    ELSE IF stage = 2
    THEN {[kind |-> "email", name |-> n] : n \in {m \in Names : emails[m] # "valid"}}
         \cup {[kind |-> "blocked", name |-> x] :
                  x \in UNION {{blocked[n][k] : k \in 1..Len(blocked[n])} : n \in Names} \ Names}
         \cup {[kind |-> "always", name |-> x] :
                  x \in UNION {{always[n][k] : k \in 1..Len(always[n])} : n \in Names} \ Names}
    ELSE {[kind |-> "group", name |-> x] :
             x \in UNION {{allGroups[g][k] : k \in 1..Len(allGroups[g])} :
                             g \in 1..Len(allGroups)} \ Names}

\* the outcomes a validation of the config may have: no error when it has no
\* defect, else an error of the first call that finds one
OutcomesAllowed ==
    IF DefectErrors(1) # {} THEN DefectErrors(1)
    ELSE IF DefectErrors(2) # {} THEN DefectErrors(2)
    ELSE IF DefectErrors(3) # {} THEN DefectErrors(3)
    ELSE {NoError}

\* C19 (as claimed): building and validating the roster gives the same
\* outcome when it is done again, and the same error, or none, for every order
\* of the santas, of the entries of their blocked and always lists, and of the
\* groups and their names.
C19_SameErrorInEveryOrder ==
    ValidationDone =>
        /\ ValidationOutcome(santas, emails, blocked, always, allGroups) = RunOutcome
        /\ \A list \in Orders(santas) : \A blockedF \in ListOrders(blocked) :
           \A alwaysF \in ListOrders(always) : \A groups \in GroupOrders(allGroups) :
              ValidationOutcome(list, emails, blockedF, alwaysF, groups) = RunOutcome

\* C19 (amended): building and validating the roster gives the same outcome
\* when it is done again, and in every order of the santas, list entries and
\* groups it succeeds, or fails in the same call with the error of one of the
\* defects that call finds; so the error is the same in every order when that
\* call finds a single defect, and is the first one met otherwise.
C19_SameSuccessAndCallInEveryOrder ==
    ValidationDone =>
        /\ ValidationOutcome(santas, emails, blocked, always, allGroups) = RunOutcome
        /\ \A list \in Orders(santas) : \A blockedF \in ListOrders(blocked) :
           \A alwaysF \in ListOrders(always) : \A groups \in GroupOrders(allGroups) :
              ValidationOutcome(list, emails, blockedF, alwaysF, groups) \in OutcomesAllowed

\* C19 witness: a run has stopped with an error of validateSantaMap, and the
\* santas in another order give another error.
C19_Witness ==
    /\ pc = "failed"
    /\ err.kind \in {"email", "blocked", "always"}
    /\ \E list \in Orders(santas) :
          ValidationOutcome(list, emails, blocked, always, allGroups) \notin {err, NoError}

----------------------------------------------------------------------------
\* Observers of the history file

\* every email of the run is in the outbox: the full list, the main emails
\* and, if config.notifyConspirators, the conspirator emails
AllEmailsSent ==
    /\ <<"list", "organizer">> \in outbox
    /\ \A n \in MatchRecipients :
          /\ <<"main", n>> \in outbox
          /\ flags.notify => <<"conspirators", n>> \in outbox

\* C20: the history file changes only by the write that follows the emails
\* of a run, all of them sent: a run that generates a list appends its Round
\* to the history it read, a removal replaces the last Round of it by the
\* repaired one and keeps the rest. With --test (command line or email) or
\* --reminder the file never changes, and it is as the run read it when the
\* run has failed or an email was not sent.
C20_HistoryWrittenOnlyAfterEmails ==
    /\ []((flags.test # "none" \/ flags.reminder \/ pc \in {"failed", "rejected"})
             => file = arrays["caller"])
    /\ [][file' # file =>
             /\ pc = "resolved" /\ pc' = "done"
             /\ flags.test = "none" /\ ~flags.reminder
             /\ AllEmailsSent
             /\ file = arrays["caller"]
             /\ IF flags.remove # NoValue
                THEN /\ Len(file') = Len(file)
                     /\ \A k \in 1..(Len(file) - 1) : file'[k] = file[k]
                     /\ file'[Len(file)] = result[1]
                ELSE file' = Append(file, result)]_vars

\* C20 witness: a run that generated a list for a config with a history and
\* with conspirator emails has written the history.
C20_Witness ==
    /\ pc = "done"
    /\ flags.remove = NoValue
    /\ flags.notify
    /\ arrays["caller"] # <<>>
    /\ AllEmailsSent
    /\ file = Append(arrays["caller"], result)

----------------------------------------------------------------------------
\* Observers of the retries

\* the calls of matchSantas made on the present history copy, the one under
\* way included
CallsOnCopy == calls - evictions * (maxRetries + 1)

\* C21: in retryMatchSantas a round is evicted only at the catch of the
\* (maxRetries + 1)-th failed attempt in a row on the present history copy
\* (so the k-th eviction follows k * (maxRetries + 1) failed calls); the
\* evicted round is the oldest one left and the other rounds stay; the attempt
\* counter is 0 after an eviction and counts the failed attempts on the copy
\* otherwise; every attempt starts with all match counts 0 and no assignment;
\* and the error is propagated only from a catch with the history copy empty
\* and the attempt counter at maxRetries.
C21_EvictionDiscipline ==
    /\ [](/\ attempts \in 0..maxRetries
          /\ pc = "call" => CallsOnCopy = attempts
          /\ pc \in {"santa", "pick", "caught"} => CallsOnCopy = attempts + 1
          /\ pc = "thrown" => (Remaining = <<>> /\ attempts = maxRetries))
    /\ [][evictions' # evictions =>
             /\ pc = "caught"
             /\ attempts = maxRetries
             /\ CallsOnCopy = maxRetries + 1
             /\ evictions' = evictions + 1
             /\ Remaining # <<>>
             /\ arrays'["local"] = Tail(arrays["local"])
             /\ attempts' = 0]_vars
    /\ [][(pc # "start" /\ arrays'["local"] # arrays["local"]) => evictions' # evictions]_vars
    /\ [][(attempts' # attempts /\ attempts' # 0) =>
             (pc = "caught" /\ attempts' = attempts + 1 /\ evictions' = evictions)]_vars
    /\ [][(pc = "call" /\ pc' # "call") =>
             /\ \A n \in Names : matchCounts'[n] = 0
             /\ allMatches' = <<>>
             /\ matches' = <<>>]_vars
    /\ [][(pc' = "thrown" /\ pc # "thrown") =>
             (pc = "caught" /\ Remaining = <<>> /\ attempts = maxRetries)]_vars

\* C21 witness: with one retry allowed and a history of two rounds, the
\* older round was evicted after two failed attempts and the first attempt on
\* the shorter copy has failed too.
C21_Witness ==
    /\ pc = "caught"
    /\ maxRetries = 1
    /\ Len(arrays["caller"]) = 2
    /\ evictions = 1
    /\ calls = 3
    /\ attempts = 0
    /\ Remaining = Tail(arrays["caller"])

\* no giver of the round is assigned to itself, and no list names a santa twice
CleanRound(round) ==
    \A i \in 1..Len(round) :
        /\ ~Includes(round[i][2], round[i][1])
        /\ NoDuplicates(round[i][2])

\* C22: when the most recent Round has no giver assigned to itself and no
\* name twice in a list, the Round that removeSantaFromLastMatches(P) returns
\* has neither, also when a broken giver is one of P's former assignees and
\* when a broken giver already holds one of them.
C22_RepairKeepsRoundClean ==
    (Removed /\ CleanRound(RoundBefore)) => CleanRound(RoundAfter)

\* C22, for the self-assignment alone
C22_RepairAssignsNoGiverToItself ==
    (Removed /\ CleanRound(RoundBefore)) =>
        \A i \in 1..Len(RoundAfter) : ~Includes(RoundAfter[i][2], RoundAfter[i][1])

====
